---- MODULE Spec2Model ----
(***************************************************************************)
(* BETRAYAL (src/card.py): the in-memory matchmaking queue, the session    *)
(* registry and the play_card engine of the Flask prototype.               *)
(*                                                                         *)
(* Modelling conventions                                                   *)
(*  - user ids are the positive integers sqlite's AUTOINCREMENT hands out; *)
(*    Python's None is 0 wherever an id is expected (None and 0 are both   *)
(*    falsy in the `if target_id` / `if g['killer']` tests of the code).   *)
(*  - a username is modelled by the id of the user that carries it (the    *)
(*    users table makes usernames UNIQUE); 0 is the empty form field and   *)
(*    an integer above NUsers is a name nobody registered.                 *)
(*  - Python lists are sequences, in the code's order; dicts are functions.*)
(*  - random.shuffle / random.choice are nondeterministic choices.         *)
(*  - a log entry f"..." is the triple <<text, actor, target>>, with 0 in  *)
(*    the positions the text does not interpolate.                         *)
(***************************************************************************)
EXTENDS Integers, Sequences, FiniteSets, TLC

VARIABLES
    matchmaking_queue,  \* list of waiting user ids (card.py:128)
    games,              \* game_id -> game dict (card.py:130); ids are 1, 2, ...
    user_to_game,       \* user_id -> game_id, 0 when absent (card.py:131)
    response,           \* what the latest request answered: <<"flash", text>> or the JSON
    pc,                 \* per request thread: the statement it is about to run
    loc                 \* per request thread: its local variables

vars == <<matchmaking_queue, games, user_to_game, response, pc, loc>>

----------------------------------------------------------------------------
(* Bounds of the model *)

MaxPlayers == 3      \* sessions are created for 2..MaxPlayers participants
MaxPlays == 3        \* accepted play_card calls explored in a session of MaxPlayers
                     \* participants (one more per participant fewer)
NShuffles == 4       \* outcomes of random.shuffle enumerated by make_new_deck
NUsers == 6          \* registered users
MaxRequeue == 1      \* players explored waiting again once a session exists
MaxDeck == 4         \* longest deck a SEARCH is given in SpecSearch
MaxUsed == 2         \* longest used pile a SEARCH is given in SpecSearch
MaxSearches == 2     \* accepted SEARCH calls explored in SpecSearch

(* Program constants *)

MATCH_SIZE == 5
HAND_SIZE == 3
SEARCH_DRAWS == 3
COPIES == 5
None == 0
NoCard == ""
NoWinner == "None"

----------------------------------------------------------------------------
(* List helpers (Python list semantics) *)

InSeq(x, s) == \E i \in 1..Len(s) : s[i] = x

FirstIndex(x, s) == CHOOSE i \in 1..Len(s) : s[i] = x /\ \A j \in 1..(i-1) : s[j] # x

RemoveAt(s, i) == SubSeq(s, 1, i-1) \o SubSeq(s, i+1, Len(s))

\* mutant: list.remove drops every occurrence
ListRemove_Every(s, x) == SelectSeq(s, LAMBDA y : y # x)

\* list.remove(x): drops the first occurrence (the callers test membership first)
ListRemove(s, x) == RemoveAt(s, FirstIndex(x, s))

Reverse(s) == [i \in 1..Len(s) |-> s[Len(s) + 1 - i]]

Range(s) == {s[i] : i \in 1..Len(s)}

RECURSIVE RemoveAll(_, _)
RemoveAll(s, xs) ==
    IF xs = <<>> THEN s ELSE RemoveAll(ListRemove(s, Head(xs)), Tail(xs))

RECURSIVE Count(_, _)
Count(x, s) == IF s = <<>> THEN 0 ELSE (IF Head(s) = x THEN 1 ELSE 0) + Count(x, Tail(s))

Rotations(s) == {SubSeq(s, i, Len(s)) \o SubSeq(s, 1, i-1) : i \in 1..Len(s)}

\* random.shuffle(list): a sample of the permutations (all of them up to length 3)
shuffle(s) ==
    IF s = <<>> THEN {<<>>}
    ELSE Rotations(s) \cup {Reverse(r) : r \in Rotations(s)}

----------------------------------------------------------------------------
(* Cards and the deck *)

CARD_FILES ==
    <<"statecard", "searchcard", "shieldcard", "takecard",
      "exchangecard", "judgecard", "killcard", "accusatecard">>

MainCards ==
    <<"statecard", "searchcard", "shieldcard", "takecard", "exchangecard", "judgecard">>

\* mutant: one copy too many of each main card
BuildDeck_SixCopies(cs) ==
    [i \in 1..(Len(cs) * (COPIES + 1)) |-> cs[((i - 1) \div (COPIES + 1)) + 1]]

RECURSIVE BuildDeck(_)
BuildDeck(cs) ==
    IF cs = <<>> THEN <<>>
    ELSE [i \in 1..COPIES |-> Head(cs)] \o BuildDeck(Tail(cs))

\* the deck of make_new_deck before random.shuffle
UnshuffledDeck == BuildDeck(MainCards) \o <<"killcard", "accusatecard">>

\* The shuffles enumerated: each is named by the cards it leaves on top of the
\* deck, in the order deck.pop() hands them out; the rest keeps the build order.
Tops ==
    << <<"killcard", "shieldcard", "statecard",
         "accusatecard", "takecard", "exchangecard",
         "searchcard", "shieldcard", "judgecard",
         "statecard", "takecard", "shieldcard">>,
       <<"accusatecard", "statecard", "judgecard",
         "takecard", "statecard", "shieldcard",
         "exchangecard", "searchcard", "statecard",
         "killcard", "judgecard", "takecard">>,
       <<"killcard", "accusatecard", "takecard",
         "shieldcard", "exchangecard", "statecard",
         "searchcard", "judgecard", "takecard",
         "shieldcard", "statecard", "exchangecard">>,
       <<"takecard", "statecard", "searchcard",
         "shieldcard", "judgecard", "exchangecard",
         "statecard", "accusatecard", "judgecard",
         "exchangecard", "searchcard", "takecard",
         "shieldcard", "statecard", "judgecard">>,
       <<"shieldcard", "shieldcard", "killcard",
         "takecard", "accusatecard", "searchcard",
         "statecard", "exchangecard", "judgecard",
         "searchcard", "statecard", "takecard">>,
       <<"exchangecard", "killcard", "searchcard",
         "accusatecard", "shieldcard", "judgecard",
         "takecard", "statecard", "statecard",
         "judgecard", "shieldcard", "searchcard">> >>

ShuffleWithTop(top) == RemoveAll(UnshuffledDeck, top) \o Reverse(top)

\* make_new_deck(): the set of decks it may return (bounded sample of shuffles)
make_new_deck == {ShuffleWithTop(Tops[k]) : k \in 1..NShuffles}

----------------------------------------------------------------------------
(* Identity collaborator *)

\* the users table: ids 1..NUsers, each with its own username
Users == 1..NUsers

get_userid_by_username(username) ==
    IF username \in Users THEN username ELSE None

get_username_by_id(uid) == uid

----------------------------------------------------------------------------
(* Sessions *)

\* mutant: two cards are dealt to each participant
DealtHand_TwoCards(deck, k) ==
    [j \in 1..(HAND_SIZE - 1) |-> deck[Len(deck) - HAND_SIZE * (k - 1) - (j - 1)]]

\* hands[pid] = [deck.pop() for _ in range(3)], one player after the other
DealtHand(deck, k) ==
    [j \in 1..HAND_SIZE |-> deck[Len(deck) - HAND_SIZE * (k - 1) - (j - 1)]]

\* mutant: the first participant is the killer whatever was dealt
InitialKiller_FirstPlayer(player_ids, hands) == player_ids[1]

\* killer = the first participant (dict order = deal order) holding killcard
InitialKiller(player_ids, hands) ==
    IF \E i \in 1..Len(player_ids) : InSeq("killcard", hands[player_ids[i]])
    THEN player_ids[CHOOSE i \in 1..Len(player_ids) :
                      /\ InSeq("killcard", hands[player_ids[i]])
                      /\ \A j \in 1..(i-1) : ~InSeq("killcard", hands[player_ids[j]])]
    ELSE None

\* the game dict create_game_for_players builds from a shuffled deck
NewGame(gid, player_ids, deck0) ==
    LET hands == [p \in Range(player_ids) |->
                    DealtHand(deck0, CHOOSE k \in 1..Len(player_ids) :
                                /\ player_ids[k] = p
                                /\ \A j \in (k+1)..Len(player_ids) : player_ids[j] # p)]
    IN [id |-> gid,
        players |-> player_ids,
        alive |-> player_ids,
        hands |-> hands,
        deck |-> SubSeq(deck0, 1, Len(deck0) - HAND_SIZE * Len(player_ids)),
        used |-> <<>>,
        killer |-> InitialKiller(player_ids, hands),
        shields_equipped |-> {},
        log |-> <<>>,
        finished |-> FALSE,
        winner |-> NoWinner]

\* mutant: the killer wins as soon as it is alive, whoever else is
winner_by_killer_AnyAlive(alive, killer) ==
    killer # None /\ InSeq(killer, alive)

winner_by_killer(alive, killer) ==
    IF killer = None THEN FALSE
    ELSE InSeq(killer, alive) /\ \A i \in 1..Len(alive) : alive[i] = killer

----------------------------------------------------------------------------
(* play_card: the effect of each card.  g is the game dict after line 681  *)
(* removed the played card from the actor's hand; each operator returns    *)
(* the set of game dicts the branch may leave (one per random outcome).    *)

Logged(g, text, a, b) == [g EXCEPT !.log = Append(@, <<text, a, b>>)]

Discard(g, card) == [g EXCEPT !.used = Append(@, card)]

\* mutant: the actor counts as a valid target
ValidOther_AllowsSelf(g, uid, target_id) ==
    target_id # None /\ InSeq(target_id, g.alive)

ValidOther(g, uid, target_id) ==
    target_id # None /\ InSeq(target_id, g.alive) /\ target_id # uid

\* lines 684-686
PlayState(g, uid) ==
    {Discard(Logged(g, "played STATE.", get_username_by_id(uid), None), "statecard")}

\* mutant: the draw loop never refills the deck from the used pile
SearchLoop_NoReshuffle(st, k) ==
    LET n == IF Len(st.deck) < k THEN Len(st.deck) ELSE k
    IN {[st EXCEPT !.deck = SubSeq(@, 1, Len(@) - n),
                   !.draws = @ \o [i \in 1..n |-> st.deck[Len(st.deck) + 1 - i]]]}

\* lines 691-698: the draw loop over [deck, used, draws]
RECURSIVE SearchLoop(_, _)
SearchLoop(st, k) ==
    IF k = 0 THEN {st}
    ELSE LET refilled ==
               IF st.deck = <<>>
               THEN {[st EXCEPT !.deck = d, !.used = <<>>] : d \in shuffle(st.used)}
               ELSE {st}
             Draw(r) ==
               IF r.deck # <<>>
               THEN [r EXCEPT !.deck = SubSeq(@, 1, Len(@) - 1),
                              !.draws = Append(@, r.deck[Len(r.deck)])]
               ELSE r
         IN UNION {SearchLoop(Draw(r), k - 1) : r \in refilled}

\* lines 687-700
PlaySearch(g, uid) ==
    LET g1 == Discard(g, "searchcard")
    IN {Logged([g1 EXCEPT !.deck = st.deck, !.used = st.used,
                          !.hands[uid] = @ \o st.draws],
               "searched and drew card(s).", get_username_by_id(uid), Len(st.draws))
        : st \in SearchLoop([deck |-> g1.deck, used |-> g1.used, draws |-> <<>>],
                            SEARCH_DRAWS)}

\* mutant: the SHIELD card goes to the used pile like every other card
PlayShield_Discarded(g, uid) ==
    {Discard(Logged([g EXCEPT !.shields_equipped = @ \cup {uid}],
                    "equipped SHIELD.", get_username_by_id(uid), None), "shieldcard")}

\* lines 701-704
PlayShield(g, uid) ==
    {Logged([g EXCEPT !.shields_equipped = @ \cup {uid}],
            "equipped SHIELD.", get_username_by_id(uid), None)}

\* mutant: an empty target hand is narrated as an invalid target
PlayTake_EmptyIsInvalid(g, uid, target_username) ==
    LET g1 == Discard(g, "takecard")
        target_id == get_userid_by_username(target_username)
    IN IF target_username = None
       THEN {Logged(g1, "No target provided for TAKE.", None, None)}
       ELSE IF ~ValidOther(g1, uid, target_id) \/ g1.hands[target_id] = <<>>
       THEN {Logged(g1, "Invalid target for TAKE.", None, None)}
       ELSE {Logged([g1 EXCEPT
                       !.hands[target_id] = ListRemove(@, g1.hands[target_id][i]),
                       !.hands[uid] = Append(@, g1.hands[target_id][i])],
                    "took a card from", get_username_by_id(uid), target_username)
             : i \in 1..Len(g1.hands[target_id])}

\* lines 705-723
PlayTake(g, uid, target_username) ==
    LET g1 == Discard(g, "takecard")
        target_id == get_userid_by_username(target_username)
    IN IF target_username = None
       THEN {Logged(g1, "No target provided for TAKE.", None, None)}
       ELSE IF ~ValidOther(g1, uid, target_id)
       THEN {Logged(g1, "Invalid target for TAKE.", None, None)}
       ELSE IF g1.hands[target_id] = <<>>
       THEN {Logged(g1, "had no cards to take.", None, target_username)}
       ELSE {Logged([g1 EXCEPT
                       !.hands[target_id] = ListRemove(@, g1.hands[target_id][i]),
                       !.hands[uid] = Append(@, g1.hands[target_id][i])],
                    "took a card from", get_username_by_id(uid), target_username)
             : i \in 1..Len(g1.hands[target_id])}

\* mutant: the actor receives the target's hand and the target keeps it too
PlayExchange_OneWay(g, uid, target_username) ==
    LET g1 == Discard(g, "exchangecard")
        target_id == get_userid_by_username(target_username)
    IN IF target_username = None
       THEN {Logged(g1, "No target provided for EXCHANGE.", None, None)}
       ELSE IF ~ValidOther(g1, uid, target_id)
       THEN {Logged(g1, "Invalid target for EXCHANGE.", None, None)}
       ELSE {Logged([g1 EXCEPT !.hands[uid] = g1.hands[target_id]],
                    "exchanged hands with", get_username_by_id(uid), target_username)}

\* lines 724-735
PlayExchange(g, uid, target_username) ==
    LET g1 == Discard(g, "exchangecard")
        target_id == get_userid_by_username(target_username)
    IN IF target_username = None
       THEN {Logged(g1, "No target provided for EXCHANGE.", None, None)}
       ELSE IF ~ValidOther(g1, uid, target_id)
       THEN {Logged(g1, "Invalid target for EXCHANGE.", None, None)}
       ELSE {Logged([g1 EXCEPT !.hands[uid] = g1.hands[target_id],
                               !.hands[target_id] = g1.hands[uid]],
                    "exchanged hands with", get_username_by_id(uid), target_username)}

\* lines 736-738
PlayJudge(g, uid) ==
    {Discard(Logged(g, "played JUDGE.", get_username_by_id(uid), None), "judgecard")}

\* mutant: the eliminated player keeps the hand
Eliminate_KeepsHand(g, pid) ==
    [g EXCEPT !.alive = ListRemove(@, pid)]

\* alive.remove(pid); used += hands[pid]; hands[pid] = []
Eliminate(g, pid) ==
    [g EXCEPT !.alive = ListRemove(@, pid),
              !.used = @ \o g.hands[pid],
              !.hands[pid] = <<>>]

\* mutant: the killer is eliminated but stays the session's killer
AccuseCorrect_KeepsKiller(g, uid, target_id, target_username) ==
    [Logged(Eliminate(g, target_id), "used ACCUSATION and was correct! eliminated.",
            get_username_by_id(uid), target_username)
       EXCEPT !.finished = TRUE, !.winner = "faithfuls"]

\* lines 746-754
AccuseCorrect(g, uid, target_id, target_username) ==
    [Logged(Eliminate(g, target_id), "used ACCUSATION and was correct! eliminated.",
            get_username_by_id(uid), target_username)
       EXCEPT !.killer = None, !.finished = TRUE, !.winner = "faithfuls"]

\* mutant: the accuser leaves alive but keeps the hand
AccuseWrong_KeepsHand(g, uid) ==
    Logged([g EXCEPT !.alive = ListRemove(@, uid)],
           "used ACCUSATION and was wrong, eliminated.",
           get_username_by_id(uid), get_username_by_id(uid))

\* lines 755-760
AccuseWrong(g, uid) ==
    Logged(Eliminate(g, uid), "used ACCUSATION and was wrong, eliminated.",
           get_username_by_id(uid), get_username_by_id(uid))

\* lines 739-764
PlayAccusation(g, uid, target_username) ==
    LET g1 == Discard(g, "accusatecard")
        target_id == get_userid_by_username(target_username)
    IN IF target_username = None
       THEN {Logged(g1, "No target provided for ACCUSATION.", None, None)}
       ELSE IF ~(target_id # None /\ InSeq(target_id, g1.alive))
       THEN {Logged(g1, "Invalid target for ACCUSATION.", None, None)}
       ELSE IF g1.killer = target_id
       THEN {AccuseCorrect(g1, uid, target_id, target_username)}
       ELSE {AccuseWrong(g1, uid)}

\* mutant: the shield card is handed over but the flag stays set
KillShielded_KeepsFlag(g, uid, target_id, target_username) ==
    Logged([g EXCEPT !.hands[uid] = Append(@, "shieldcard")],
           "attempted to kill but shield broke and was taken by killer.",
           get_username_by_id(uid), target_username)

\* lines 774-778
KillShielded(g, uid, target_id, target_username) ==
    Logged([g EXCEPT !.shields_equipped = @ \ {target_id},
                     !.hands[uid] = Append(@, "shieldcard")],
           "attempted to kill but shield broke and was taken by killer.",
           get_username_by_id(uid), target_username)

\* lines 779-784
KillUnshielded(g, uid, target_id, target_username) ==
    Logged(Eliminate(g, target_id), "used KILL and eliminated",
           get_username_by_id(uid), target_username)

\* mutant: the actor becomes the killer only when the target is valid
PlayKill_KillerOnValidTarget(g, uid, target_username) ==
    LET g1 == Discard(g, "killcard")
        g2 == [g1 EXCEPT !.killer = uid]
        target_id == get_userid_by_username(target_username)
    IN IF target_username = None
       THEN {Logged(g1, "No target provided for KILL.", None, None)}
       ELSE IF ~ValidOther(g1, uid, target_id)
       THEN {Logged(g1, "Invalid target for KILL.", None, None)}
       ELSE IF target_id \in g2.shields_equipped
       THEN {KillShielded(g2, uid, target_id, target_username)}
       ELSE {KillUnshielded(g2, uid, target_id, target_username)}

\* lines 765-788
PlayKill(g, uid, target_username) ==
    LET g1 == [Discard(g, "killcard") EXCEPT !.killer = uid]
        target_id == get_userid_by_username(target_username)
    IN IF target_username = None
       THEN {Logged(g1, "No target provided for KILL.", None, None)}
       ELSE IF ~ValidOther(g1, uid, target_id)
       THEN {Logged(g1, "Invalid target for KILL.", None, None)}
       ELSE IF target_id \in g1.shields_equipped
       THEN {KillShielded(g1, uid, target_id, target_username)}
       ELSE {KillUnshielded(g1, uid, target_id, target_username)}

\* lines 789-791
PlayOther(g, uid, card) ==
    {Logged(Discard(g, card), "played (demo).", get_username_by_id(uid), None)}

\* mutant: the end check knows the killer's victory only
EndCheck_KillerOnly(g) ==
    IF g.killer # None /\ winner_by_killer(g.alive, g.killer)
    THEN [g EXCEPT !.finished = TRUE, !.winner = "killer"]
    ELSE g

\* lines 793-799
EndCheck(g) ==
    IF g.killer # None /\ winner_by_killer(g.alive, g.killer)
    THEN [g EXCEPT !.finished = TRUE, !.winner = "killer"]
    ELSE IF g.killer = None /\ \A i \in 1..Len(g.players) :
                                  /\ g.players[i] \in DOMAIN g.hands
                                  /\ g.hands[g.players[i]] = <<>>
    THEN [g EXCEPT !.finished = TRUE, !.winner = "faithfuls"]
    ELSE g

\* lines 681-799: what an accepted call may turn the game dict into
Resolve(g, uid, card, target_username) ==
    LET g1 == [g EXCEPT !.hands[uid] = ListRemove(@, card)]
        after ==
          CASE card = "statecard" -> PlayState(g1, uid)
            [] card = "searchcard" -> PlaySearch(g1, uid)
            [] card = "shieldcard" -> PlayShield(g1, uid)
            [] card = "takecard" -> PlayTake(g1, uid, target_username)
            [] card = "exchangecard" -> PlayExchange(g1, uid, target_username)
            [] card = "judgecard" -> PlayJudge(g1, uid)
            [] card = "accusatecard" -> PlayAccusation(g1, uid, target_username)
            [] card = "killcard" -> PlayKill(g1, uid, target_username)
            [] OTHER -> PlayOther(g1, uid, card)
    IN {EndCheck(g2) : g2 \in after}

\* mutant: the alive test of line 671 is skipped
Rejects_NoAliveCheck(g, uid, card) ==
    IF ~InSeq(uid, g.players)
    THEN "Game not found or you're not a player."
    ELSE IF card = NoCard \/ ~InSeq(card, g.hands[uid])
    THEN "Invalid card selection."
    ELSE ""

\* lines 668-678 on a game dict that exists: the flash text of the early
\* return taken, "" when the call goes through
Rejects(g, uid, card) ==
    IF ~InSeq(uid, g.players)
    THEN "Game not found or you're not a player."
    ELSE IF ~InSeq(uid, g.alive)
    THEN "You're eliminated."
    ELSE IF card = NoCard \/ ~InSeq(card, g.hands[uid])
    THEN "Invalid card selection."
    ELSE ""

\* lines 667-678: the early returns of play_card
Rejection(game_id, uid, card) ==
    IF game_id \notin DOMAIN games
    THEN "Game not found or you're not a player."
    ELSE Rejects(games[game_id], uid, card)

\* flash(text) followed by the redirect; the text is "" when the call goes through
Flash(text) == <<"flash", text>>

\* POST /game/<game_id>/play_card as one atomic request
play_card(game_id, uid, card, target_username) ==
    /\ response' = Flash(Rejection(game_id, uid, card))
    /\ IF Rejection(game_id, uid, card) # ""
       THEN UNCHANGED games
       ELSE \E g2 \in Resolve(games[game_id], uid, card, target_username) :
               games' = [games EXCEPT ![game_id] = g2]
    /\ UNCHANGED <<matchmaking_queue, user_to_game, pc, loc>>

----------------------------------------------------------------------------
(* The session registry and the matchmaking endpoints, one request at a time *)

\* games[game['id']] = game; user_to_game[pid] = game['id'] (lines 162-164).
\* The id str(uuid4())[:8] is modelled as the next free index.
Registered(gs, u2g, player_ids, deck) ==
    [games |-> Append(gs, NewGame(Len(gs) + 1, player_ids, deck)),
     user_to_game |-> [u \in DOMAIN u2g |->
                         IF InSeq(u, player_ids) THEN Len(gs) + 1 ELSE u2g[u]]]

\* create_game_for_players(player_ids), for each deck make_new_deck may return
create_game_for_players(player_ids) ==
    \E deck \in make_new_deck :
        /\ games' = Registered(games, user_to_game, player_ids, deck).games
        /\ user_to_game' = Registered(games, user_to_game, player_ids, deck).user_to_game

\* mutant: the match starts only once more than MATCH_SIZE players wait
join_queue_OffByOne(uid) ==
    LET queued == IF InSeq(uid, matchmaking_queue)
                  THEN matchmaking_queue
                  ELSE Append(matchmaking_queue, uid)
    IN IF Len(queued) > MATCH_SIZE
       THEN /\ create_game_for_players(SubSeq(queued, 1, MATCH_SIZE))
            /\ matchmaking_queue' = SubSeq(queued, MATCH_SIZE + 1, Len(queued))
            /\ response' = <<"started", TRUE, Len(games) + 1>>
            /\ UNCHANGED <<pc, loc>>
       ELSE /\ matchmaking_queue' = queued
            /\ response' = <<"started", FALSE, None>>
            /\ UNCHANGED <<games, user_to_game, pc, loc>>

\* mutant: the membership test of line 565 is skipped
join_queue_AlwaysAppend(uid) ==
    LET queued == Append(matchmaking_queue, uid)
    IN IF Len(queued) >= MATCH_SIZE
       THEN /\ create_game_for_players(SubSeq(queued, 1, MATCH_SIZE))
            /\ matchmaking_queue' = SubSeq(queued, MATCH_SIZE + 1, Len(queued))
            /\ response' = <<"started", TRUE, Len(games) + 1>>
            /\ UNCHANGED <<pc, loc>>
       ELSE /\ matchmaking_queue' = queued
            /\ response' = <<"started", FALSE, None>>
            /\ UNCHANGED <<games, user_to_game, pc, loc>>

\* POST /match/join (lines 559-572)
join_queue(uid) ==
    LET queued == IF InSeq(uid, matchmaking_queue)
                  THEN matchmaking_queue
                  ELSE Append(matchmaking_queue, uid)
    IN IF Len(queued) >= MATCH_SIZE
       THEN /\ create_game_for_players(SubSeq(queued, 1, MATCH_SIZE))
            /\ matchmaking_queue' = SubSeq(queued, MATCH_SIZE + 1, Len(queued))
            /\ response' = <<"started", TRUE, Len(games) + 1>>
            /\ UNCHANGED <<pc, loc>>
       ELSE /\ matchmaking_queue' = queued
            /\ response' = <<"started", FALSE, None>>
            /\ UNCHANGED <<games, user_to_game, pc, loc>>

\* POST /match/leave (lines 574-582)
leave_queue(uid) ==
    /\ matchmaking_queue' = IF InSeq(uid, matchmaking_queue)
                            THEN ListRemove(matchmaking_queue, uid)
                            ELSE matchmaking_queue
    /\ response' = <<"left", TRUE, None>>
    /\ UNCHANGED <<games, user_to_game, pc, loc>>

\* GET /match/status (lines 584-594)
queue_status(uid) ==
    /\ response' = <<"status", Len(matchmaking_queue), user_to_game[uid] # None,
                     user_to_game[uid]>>
    /\ UNCHANGED <<matchmaking_queue, games, user_to_game, pc, loc>>

----------------------------------------------------------------------------
(* Spec: one session, as create_game_for_players leaves it, and then any   *)
(* sequence of play_card requests handled one at a time.                   *)

SessionPlayers == {[i \in 1..n |-> i] : n \in 2..MaxPlayers}

Init ==
    /\ matchmaking_queue = <<>>
    /\ \E player_ids \in SessionPlayers, deck \in make_new_deck :
         /\ games = <<NewGame(1, player_ids, deck)>>
         /\ user_to_game = [u \in Users |-> IF InSeq(u, player_ids) THEN 1 ELSE None]
    /\ response = <<>>
    /\ pc = <<>>
    /\ loc = <<>>

\* the form offers the eight card files; the field may also be missing
CardInputs == Range(CARD_FILES) \cup {NoCard}

\* every accepted call appends one log entry; smaller sessions are explored deeper
PlayBudget(g) == MaxPlays + (MaxPlayers - Len(g.players))

\* the target field is read only by a call that passes the three early returns
TargetInputs == 0..(Len(games[1].players) + 1) \cup {NUsers + 1}

PlayCard ==
    \E uid \in 1..(Len(games[1].players) + 1), card \in CardInputs :
        /\ Len(games[1].log) < PlayBudget(games[1])
        /\ IF Rejection(1, uid, card) # ""
           THEN play_card(1, uid, card, None)
           ELSE \E target_username \in TargetInputs :
                   play_card(1, uid, card, target_username)

Next == PlayCard

Spec == Init /\ [][Next]_vars

----------------------------------------------------------------------------
(* Properties of one session under sequential play_card calls (Spec) *)

\* the session Spec plays
G == games[1]

RECURSIVE SumLen(_, _)
SumLen(hands, ps) ==
    IF ps = {} THEN 0
    ELSE LET p == CHOOSE q \in ps : TRUE
         IN Len(hands[p]) + SumLen(hands, ps \ {p})

CardTotal(g) == Len(g.deck) + SumLen(g.hands, DOMAIN g.hands) + Len(g.used)

LastLog(g) == IF g.log = <<>> THEN <<"", None, None>> ELSE g.log[Len(g.log)]

AllHandsEmpty(g) == \A p \in DOMAIN g.hands : g.hands[p] = <<>>

\* C1: in every state reachable after create_game_for_players and any
\* sequence of accepted or rejected play_card calls,
\* len(deck) + sum of len(hand) over the participants + len(used) = 32.
C1_CardConservation == CardTotal(G) = 32

\* C2: once finished = true, every later play_card call is rejected and
\* leaves the whole game dict (hands, deck, used, alive, killer,
\* shields_equipped, log, finished, winner) unchanged.
C2_FinishedIsTerminal ==
    [][G.finished => (response' # Flash("") /\ games' = games)]_vars

\* C6: in every state reached after a play_card call, winner = "killer"
\* if and only if killer is some participant X and alive = {X}.
C6_KillerVictory ==
    (G.winner = "killer") <=>
        (G.killer # None /\ InSeq(G.killer, G.players) /\ G.alive = <<G.killer>>)

\* C6 witness: a call left the killer as the only one alive, and the winner
C6_Witness ==
    G.log # <<>> /\ G.winner = "killer" /\ G.alive = <<G.killer>>

\* an accepted call: it passes the three early returns of play_card
Accepted(uid, card) == Rejection(1, uid, card) = ""

\* the step is an accepted ACCUSATION whose target is alive and the killer
\* (only a holder of the card in alive can make it, and only against killer)
CorrectAccusationStep ==
    \E uid \in Range(G.alive) :
        /\ G.killer # None /\ InSeq(G.killer, G.alive)
        /\ Accepted(uid, "accusatecard")
        /\ play_card(1, uid, "accusatecard", G.killer)

\* C7: a play_card step sets winner to "faithfuls" exactly when (a) it is an
\* ACCUSATION whose target is alive and is the current killer, or (b) after
\* the step killer is none and every participant's hand is empty: no other
\* step sets it, and every step satisfying (a) or (b) does.
C7_FaithfulsVictory ==
    [][LET a == CorrectAccusationStep
           b == G'.killer = None /\ AllHandsEmpty(G')
       IN /\ (a \/ b) => G'.winner = "faithfuls"
          /\ (G'.winner = "faithfuls" /\ G.winner # "faithfuls") => (a \/ b)
      ]_vars

\* C7 witness: faithfuls won by rule (b) alone, nobody was accused correctly
C7_Witness ==
    /\ G.winner = "faithfuls" /\ G.killer = None /\ AllHandsEmpty(G)
    /\ \A i \in 1..Len(G.log) :
          G.log[i][1] # "used ACCUSATION and was correct! eliminated."

\* C8: KILL played with an alive target (different from the actor) that has
\* an equipped shield leaves alive unchanged, removes the target from
\* shields_equipped, adds exactly one SHIELD card to the actor's hand, and
\* does not change the target's hand.
C8_KillOnShield ==
    [][\A t \in G.shields_equipped, uid \in Range(G.alive) :
          (/\ InSeq(t, G.alive) /\ t # uid
           /\ Accepted(uid, "killcard")
           /\ play_card(1, uid, "killcard", t)) =>
             /\ G'.alive = G.alive
             /\ G'.shields_equipped = G.shields_equipped \ {t}
             /\ Count("shieldcard", G'.hands[uid]) = Count("shieldcard", G.hands[uid]) + 1
             /\ Len(G'.hands[uid]) = Len(G.hands[uid])
             /\ G'.hands[t] = G.hands[t]
      ]_vars

\* C8 witness: a KILL has just broken a shield
C8_Witness ==
    LastLog(G)[1] = "attempted to kill but shield broke and was taken by killer."

WrongAccusationEffect(a, b) ==
    LET held == [G.hands EXCEPT ![a] = ListRemove(@, "accusatecard")]
    IN /\ G'.alive = ListRemove(G.alive, a)
       /\ G'.hands = [held EXCEPT ![a] = <<>>]
       /\ G'.used = (G.used \o <<"accusatecard">>) \o held[a]
       /\ InSeq(b, G'.alive)
       /\ G'.killer = G.killer

WrongAccusation(a, b) ==
    /\ InSeq(b, G.alive) /\ b # a /\ G.killer # b
    /\ Accepted(a, "accusatecard")
    /\ play_card(1, a, "accusatecard", b)

\* C10 as stated: after a wrong accusation of B by A, A and only A leaves
\* alive, A's hand is moved to used, B stays alive, killer is unchanged, and
\* the session is not marked finished unless the killer is then the only
\* alive participant.
C10_WrongAccusation_Original ==
    [][\A a \in Range(G.alive), b \in Range(G.alive) :
          WrongAccusation(a, b) =>
             /\ WrongAccusationEffect(a, b)
             /\ (G'.finished /\ ~G.finished) =>
                   (G'.killer # None /\ G'.alive = <<G'.killer>>)
      ]_vars

\* C10 amended: ... and the session is not marked finished unless the killer
\* is then the only alive participant, or killer is none and every
\* participant's hand is then empty (the faithfuls' end check).
C10_WrongAccusation ==
    [][\A a \in Range(G.alive), b \in Range(G.alive) :
          WrongAccusation(a, b) =>
             /\ WrongAccusationEffect(a, b)
             /\ (G'.finished /\ ~G.finished) =>
                   \/ (G'.killer # None /\ G'.alive = <<G'.killer>>)
                   \/ (G'.killer = None /\ AllHandsEmpty(G'))
             /\ (G'.killer = None /\ AllHandsEmpty(G')) => G'.finished
      ]_vars

\* C10 witness: a wrong accusation that did not end the session
C10_Witness ==
    /\ LastLog(G)[1] = "used ACCUSATION and was wrong, eliminated."
    /\ ~G.finished
    /\ Len(G.alive) = Len(G.players) - 1

\* an accepted TAKE by a on the alive player b, whose hand is empty
TakeOnEmptyHand(a, b) ==
    /\ b # a /\ G.hands[b] = <<>>
    /\ Accepted(a, "takecard")
    /\ play_card(1, a, "takecard", b)

NoCardsToTakeLogged(b) ==
    G'.log = Append(G.log, <<"had no cards to take.", None, b>>)

\* C11 as stated: TAKE played against an alive target (other than the actor)
\* whose hand is empty changes no player's hand size and appends the "had no
\* cards to take" entry to the log.
C11_TakeOnEmptyHand_Original ==
    [][\A a \in Range(G.alive), b \in Range(G.alive) :
          TakeOnEmptyHand(a, b) =>
             /\ \A p \in DOMAIN G.hands : Len(G'.hands[p]) = Len(G.hands[p])
             /\ NoCardsToTakeLogged(b)
      ]_vars

\* C11 amended: ... changes no hand other than the actor's, which loses
\* exactly the played TAKE card (the target's hand stays empty), and appends
\* the "had no cards to take" entry to the log.
C11_TakeOnEmptyHand ==
    [][\A a \in Range(G.alive), b \in Range(G.alive) :
          TakeOnEmptyHand(a, b) =>
             /\ G'.hands = [G.hands EXCEPT ![a] = ListRemove(@, "takecard")]
             /\ G'.used = Append(G.used, "takecard")
             /\ NoCardsToTakeLogged(b)
      ]_vars

\* C11 witness: a TAKE has just found its alive target's hand empty
C11_Witness ==
    /\ LastLog(G)[1] = "had no cards to take."
    /\ InSeq(LastLog(G)[3], G.alive)
    /\ G.hands[LastLog(G)[3]] = <<>>

TargetedCards == {"takecard", "exchangecard", "killcard", "accusatecard"}

\* no target, an unknown name, a player that is not alive, or the actor
\* itself where the card asks for another player
InvalidTarget(a, card, target_username) ==
    \/ target_username = None
    \/ get_userid_by_username(target_username) = None
    \/ ~InSeq(get_userid_by_username(target_username), G.alive)
    \/ card # "accusatecard" /\ get_userid_by_username(target_username) = a

\* an accepted play of a targeted card by a with an invalid target
SoftFailure(a, card, target_username) ==
    /\ InvalidTarget(a, card, target_username)
    /\ Accepted(a, card)
    /\ play_card(1, a, card, target_username)

\* the played card moves from the actor's hand to used and one entry is
\* appended to the log; alive, the other hands, deck and shields stay
CardSpent(a, card) ==
    /\ G'.hands = [G.hands EXCEPT ![a] = ListRemove(@, card)]
    /\ G'.used = Append(G.used, card)
    /\ Len(G'.log) = Len(G.log) + 1
    /\ SubSeq(G'.log, 1, Len(G.log)) = G.log
    /\ G'.alive = G.alive
    /\ G'.deck = G.deck
    /\ G'.shields_equipped = G.shields_equipped

\* C12 as stated: a TAKE, EXCHANGE, KILL or ACCUSATION played with an
\* invalid target only moves the played card from the actor's hand to used
\* and appends one log entry; alive, every other hand, deck,
\* shields_equipped, killer, finished and winner are unchanged.
C12_SoftFailure_Original ==
    [][\A a \in Range(G.alive) :
        \A card \in TargetedCards \cap Range(G.hands[a]), tu \in TargetInputs :
          SoftFailure(a, card, tu) =>
             /\ CardSpent(a, card)
             /\ G'.killer = G.killer
             /\ G'.finished = G.finished
             /\ G'.winner = G.winner
      ]_vars

\* C12 amended: ... alive, every other hand, deck and shields_equipped are
\* unchanged; killer is unchanged except that a KILL makes its actor the
\* killer; finished and winner are unchanged unless the end check that
\* closes every play finds the killer alone in alive (winner "killer") or
\* killer none with every hand empty (winner "faithfuls").
C12_SoftFailure ==
    [][\A a \in Range(G.alive) :
        \A card \in TargetedCards \cap Range(G.hands[a]), tu \in TargetInputs :
          SoftFailure(a, card, tu) =>
             /\ CardSpent(a, card)
             /\ G'.killer = IF card = "killcard" THEN a ELSE G.killer
             /\ IF G'.killer # None /\ G'.alive = <<G'.killer>>
                THEN G'.finished /\ G'.winner = "killer"
                ELSE IF G'.killer = None /\ AllHandsEmpty(G')
                THEN G'.finished /\ G'.winner = "faithfuls"
                ELSE G'.finished = G.finished /\ G'.winner = G.winner
      ]_vars

\* C12 witness: a KILL has just been spent on an invalid target
C12_Witness ==
    /\ LastLog(G)[1] = "Invalid target for KILL."
    /\ InSeq("killcard", G.used)
    /\ G.alive = G.players

\* the users whose requests are explored: the participants and one outsider
Callers == 1..(Len(G.players) + 1)

\* C13: a play_card call whose acting player is not a participant of the
\* session, or is a participant no longer in alive, is rejected (with the
\* message of its case) and no session field changes.
C13_NotPlayerOrEliminated ==
    [][\A uid \in Callers :
          (~InSeq(uid, G.players) \/ ~InSeq(uid, G.alive)) =>
             \/ /\ games' = games
                /\ response' = Flash(IF InSeq(uid, G.players)
                                     THEN "You're eliminated."
                                     ELSE "Game not found or you're not a player.")
             \/ \A card \in CardInputs, tu \in TargetInputs :
                   ~play_card(1, uid, card, tu)
      ]_vars

\* C13 witness: an eliminated participant's call has just been rejected
C13_Witness ==
    /\ response = Flash("You're eliminated.")
    /\ \E p \in Range(G.players) : ~InSeq(p, G.alive)

\* the cards whose effect leaves the actor's hand as line 681 left it
PlainCards == {"statecard", "judgecard", "shieldcard"}

\* hand h2 is hand h1 less exactly one copy of card
OneCopyLess(h1, h2, card) ==
    /\ Len(h2) = Len(h1) - 1
    /\ \A c \in Range(CARD_FILES) :
          Count(c, h2) = Count(c, h1) - (IF c = card THEN 1 ELSE 0)

\* C14: a play_card call by an alive participant naming a card that is
\* missing or not in that player's hand is rejected and no session field
\* changes; a call naming a held card takes exactly one copy of it out of
\* the hand, however many copies are held.  The removal is observed where
\* the card's effect moves no card of the actor: STATE, JUDGE and SHIELD,
\* and the targeted cards played without a target; after SEARCH, which
\* only adds cards, at most one copy is gone.  (The branches of STATE,
\* JUDGE, SHIELD and SEARCH and the early returns never read the target
\* field, so their steps are those of the call without a target.)
C14_CardSelection ==
    [][\A uid \in Range(G.alive) :
          /\ \/ /\ games' = games
                /\ response' = Flash("Invalid card selection.")
             \/ \A card \in CardInputs \ Range(G.hands[uid]) :
                   ~play_card(1, uid, card, None)
          /\ response' = Flash("") =>
                \A card \in Range(G.hands[uid]) :
                   play_card(1, uid, card, None) =>
                      IF card = "searchcard"
                      THEN Count(card, G'.hands[uid]) >= Count(card, G.hands[uid]) - 1
                      ELSE OneCopyLess(G.hands[uid], G'.hands[uid], card)
      ]_vars

\* C14 witness: a STATE card has just been played from a hand that held it
\* twice, and the other copy is still there
C14_Witness ==
    /\ LastLog(G)[1] = "played STATE."
    /\ InSeq("statecard", G.hands[LastLog(G)[2]])

\* the hand player p holds once card has left the actor's hand (line 681)
HandAfterRemoval(p, actor, card) ==
    IF p = actor THEN ListRemove(G.hands[p], card) ELSE G.hands[p]

\* the step is an accepted ACCUSATION or KILL by some actor, and it moved
\* the played card and then the whole remaining hand of p to used
HandDiscarded(p) ==
    \E actor \in Range(G.alive), card \in {"accusatecard", "killcard"} :
        /\ InSeq(card, G.hands[actor])
        /\ G'.used = Append(G.used, card) \o HandAfterRemoval(p, actor, card)

\* C19: every elimination removes the player from alive, appends that
\* player's whole remaining hand to used and empties the hand; in every
\* reachable state each participant that is not in alive has an empty hand,
\* and alive is a subset of the participants.
C19_Elimination ==
    /\ [](/\ Range(G.alive) \subseteq Range(G.players)
          /\ \A p \in Range(G.players) : ~InSeq(p, G.alive) => G.hands[p] = <<>>)
    /\ [][\A p \in Range(G.alive) :
             ~InSeq(p, G'.alive) =>
                /\ G'.alive = ListRemove(G.alive, p)
                /\ G'.hands[p] = <<>>
                /\ HandDiscarded(p)
         ]_vars

\* C19 witness: a KILL has just eliminated a player who held cards, and
\* they are on the used pile
C19_Witness ==
    /\ LastLog(G)[1] = "used KILL and eliminated"
    /\ \E p \in Range(G.players) : ~InSeq(p, G.alive) /\ G.hands[p] = <<>>
    /\ Len(G.used) >= 1 + HAND_SIZE

\* the step is an accepted KILL by an alive player other than p, naming p
KillPlayedAgainst(p) ==
    \E a \in Range(G.alive) \ {p} :
        Accepted(a, "killcard") /\ play_card(1, a, "killcard", p)

\* C21: playing SHIELD sets the actor's shield flag and does not put the
\* card in used; a shield flag that is set stays set through every step
\* except a KILL played against its holder, and nothing else clears it.
C21_Shield ==
    [][/\ \A uid \in Range(G.alive) :
             (Accepted(uid, "shieldcard") /\ play_card(1, uid, "shieldcard", None)) =>
                /\ uid \in G'.shields_equipped
                /\ G'.used = G.used
                /\ G'.hands[uid] = ListRemove(G.hands[uid], "shieldcard")
       /\ \A p \in G.shields_equipped :
             p \notin G'.shields_equipped => KillPlayedAgainst(p)
      ]_vars

\* C21 witness: a player equipped a shield and was later eliminated by an
\* accusation; the flag outlived the elimination
C21_Witness ==
    \E p \in G.shields_equipped :
        /\ ~InSeq(p, G.alive)
        /\ \E i \in 1..Len(G.log) : G.log[i] = <<"equipped SHIELD.", p, None>>
        /\ LastLog(G)[1] \in {"used ACCUSATION and was wrong, eliminated.",
                              "used ACCUSATION and was correct! eliminated."}

\* an accepted EXCHANGE by a naming the alive player b, another than a
ExchangeWith(a, b) ==
    /\ b # a
    /\ Accepted(a, "exchangecard")
    /\ play_card(1, a, "exchangecard", b)

\* the hands a second EXCHANGE of actor with target, played on game dict g,
\* may leave; none when actor holds no EXCHANGE card in g
SecondExchange(g, actor, target) ==
    IF Rejects(g, actor, "exchangecard") = ""
    THEN {g3.hands : g3 \in Resolve(g, actor, "exchangecard", target)}
    ELSE {}

\* C22: EXCHANGE played with an alive target other than the actor swaps the
\* two hands: the target's hand becomes the actor's hand without the played
\* card, the actor's hand the target's former hand; the other hands, deck,
\* alive, killer and shields_equipped are unchanged; a second EXCHANGE
\* between the same two players, by either of them, gives each of the two
\* the hand held before the first one, less the EXCHANGE cards spent from it.
C22_Exchange ==
    [][\A a \in Range(G.alive), b \in Range(G.alive) :
          ExchangeWith(a, b) =>
             LET held == ListRemove(G.hands[a], "exchangecard")
             IN /\ G'.hands = [G.hands EXCEPT ![a] = G.hands[b], ![b] = held]
                /\ G'.used = Append(G.used, "exchangecard")
                /\ G'.deck = G.deck
                /\ G'.alive = G.alive
                /\ G'.killer = G.killer
                /\ G'.shields_equipped = G.shields_equipped
                /\ \A h \in SecondExchange(G', a, b) :
                      h = [G.hands EXCEPT ![a] = held,
                                          ![b] = ListRemove(@, "exchangecard")]
                /\ \A h \in SecondExchange(G', b, a) :
                      h = [G.hands EXCEPT ![a] = ListRemove(held, "exchangecard")]
      ]_vars

\* C22 witness: the last two plays were EXCHANGEs between the same two players
C22_Witness ==
    /\ Len(G.log) >= 2
    /\ LastLog(G)[1] = "exchanged hands with"
    /\ G.log[Len(G.log) - 1][1] = "exchanged hands with"
    /\ {LastLog(G)[2], LastLog(G)[3]}
         = {G.log[Len(G.log) - 1][2], G.log[Len(G.log) - 1][3]}

\* an accepted KILL by a with the target field target_username
KillPlayed(a, target_username) ==
    /\ Accepted(a, "killcard")
    /\ play_card(1, a, "killcard", target_username)

\* the target field names an alive player other than a with no shield equipped
UnshieldedVictim(a, target_username) ==
    /\ get_userid_by_username(target_username) # None
    /\ InSeq(get_userid_by_username(target_username), G.alive)
    /\ get_userid_by_username(target_username) # a
    /\ get_userid_by_username(target_username) \notin G.shields_equipped

\* C23: after any accepted play of KILL by actor A, killer = A, whether or
\* not a target was given or valid; when the target is alive, different from
\* A and unshielded, it is removed from alive; and a step that changes killer
\* is a play of KILL or a correct ACCUSATION.
C23_KillerFollowsKill ==
    [][/\ \A a \in Range(G.alive), tu \in TargetInputs :
             KillPlayed(a, tu) =>
                /\ G'.killer = a
                /\ UnshieldedVictim(a, tu) =>
                      G'.alive = ListRemove(G.alive, get_userid_by_username(tu))
       /\ G'.killer # G.killer =>
             \/ \E a \in Range(G.alive), tu \in TargetInputs : KillPlayed(a, tu)
             \/ CorrectAccusationStep
      ]_vars

\* C23 witness: a player who drew the KILL card with SEARCH played it with
\* no target and is the killer, everybody still alive
C23_Witness ==
    /\ LastLog(G)[1] = "No target provided for KILL."
    /\ G.killer # None
    /\ G.alive = G.players
    /\ \E i \in 1..Len(G.log) :
          G.log[i][1] = "searched and drew card(s)." /\ G.log[i][2] = G.killer

C26_KillerAlive ==
    G.killer # None => (InSeq(G.killer, G.players) /\ InSeq(G.killer, G.alive))

----------------------------------------------------------------------------
(* SpecQueue: the matchmaking endpoints from a freshly started process,    *)
(* one request at a time.                                                  *)

InitQueue ==
    /\ matchmaking_queue = <<>>
    /\ games = <<>>
    /\ user_to_game = [u \in Users |-> None]
    /\ response = <<>>
    /\ pc = <<>>
    /\ loc = <<>>

\* once a session exists, at most MaxRequeue players are explored waiting
JoinQueue ==
    \E uid \in Users :
        /\ Len(games) = 0 \/ Len(matchmaking_queue) < MaxRequeue
        /\ join_queue(uid)

LeaveQueue == \E uid \in Users : leave_queue(uid)

QueueStatus == \E uid \in Users : queue_status(uid)

NextQueue == JoinQueue \/ LeaveQueue \/ QueueStatus

SpecQueue == InitQueue /\ [][NextQueue]_vars

\* C5: from an empty queue, 5 distinct players joining one after another:
\* the first four joins create no session (each player is appended, in join
\* order), the fifth creates exactly one session whose participants are
\* those 5 players in join order, and the queue length is 0 afterwards.
C5_FiveJoins ==
    [][/\ Len(matchmaking_queue) < MATCH_SIZE
       /\ \A uid \in Users :
             (~InSeq(uid, matchmaking_queue) /\ join_queue(uid)) =>
                IF Len(matchmaking_queue) < MATCH_SIZE - 1
                THEN /\ games' = games
                     /\ matchmaking_queue' = Append(matchmaking_queue, uid)
                     /\ response' = <<"started", FALSE, None>>
                ELSE /\ Len(games') = Len(games) + 1
                     /\ SubSeq(games', 1, Len(games)) = games
                     /\ games'[Len(games')].players = Append(matchmaking_queue, uid)
                     /\ Len(games'[Len(games')].players) = 5
                     /\ matchmaking_queue' = <<>>
                     /\ response' = <<"started", TRUE, games'[Len(games')].id>>
      ]_vars

\* C5 witness: the fifth join has just created the first session
C5_Witness ==
    /\ Len(games) = 1 /\ Len(games[1].players) = 5
    /\ matchmaking_queue = <<>>
    /\ response = <<"started", TRUE, 1>>

\* the number of copies of card c a game dict holds in deck, hands and used
RECURSIVE CopiesInHands(_, _, _)
CopiesInHands(c, hands, ps) ==
    IF ps = {} THEN 0
    ELSE LET p == CHOOSE q \in ps : TRUE
         IN Count(c, hands[p]) + CopiesInHands(c, hands, ps \ {p})

CopiesIn(c, g) ==
    Count(c, g.deck) + CopiesInHands(c, g.hands, DOMAIN g.hands) + Count(c, g.used)

StandardDeck(d) ==
    /\ Len(d) = 32
    /\ \A c \in Range(MainCards) : Count(c, d) = 5
    /\ Count("killcard", d) = 1
    /\ Count("accusatecard", d) = 1

\* C15: every deck make_new_deck may return has exactly 32 cards: 5 each of
\* STATE, SEARCH, SHIELD, TAKE, EXCHANGE, JUDGE, 1 KILL and 1 ACCUSATION;
\* so has every session create_game_for_players made from such a deck
\* (deck and opening hands together), whichever shuffle was drawn.
C15_DeckComposition ==
    /\ \A d \in make_new_deck : StandardDeck(d)
    /\ \A k \in 1..Len(games) :
          /\ Len(games[k].deck) + SumLen(games[k].hands, DOMAIN games[k].hands) = 32
          /\ \A c \in Range(MainCards) : CopiesIn(c, games[k]) = 5
          /\ CopiesIn("killcard", games[k]) = 1
          /\ CopiesIn("accusatecard", games[k]) = 1

\* C15 witness: a session dealt from a deck of make_new_deck, the ACCUSATION
\* card among the cards dealt
C15_Witness ==
    /\ Len(games) = 1
    /\ \E d \in make_new_deck : games[1].deck = SubSeq(d, 1, Len(games[1].deck))
    /\ Count("accusatecard", games[1].deck) = 0

\* the session a join_queue step has just created, if it created one
Created == games'[Len(games')]

Distinct(s) == \A i, j \in 1..Len(s) : i # j => s[i] # s[j]

\* C16: immediately after create_game_for_players with 5 distinct players,
\* every participant holds exactly 3 cards (15 dealt in total), the deck
\* holds 17, used is empty, alive equals the participant list,
\* shields_equipped is empty, finished is false and winner is none.
C16_FreshSession ==
    [][(Len(games') = Len(games) + 1
          /\ Len(Created.players) = 5 /\ Distinct(Created.players)) =>
          /\ DOMAIN Created.hands = Range(Created.players)
          /\ \A p \in Range(Created.players) : Len(Created.hands[p]) = 3
          /\ SumLen(Created.hands, DOMAIN Created.hands) = 15
          /\ Len(Created.deck) = 17
          /\ Created.used = <<>>
          /\ Created.alive = Created.players
          /\ Created.shields_equipped = {}
          /\ Created.finished = FALSE
          /\ Created.winner = NoWinner
      ]_vars

\* C16 witness: a session of 5 distinct players has just been created
C16_Witness ==
    /\ Len(games) = 1
    /\ Len(games[1].players) = 5 /\ Distinct(games[1].players)
    /\ response[1] = "started" /\ response[2]
    /\ Len(games[1].deck) = 17

HoldsKill(g, p) == InSeq("killcard", g.hands[p])

\* C17: immediately after create_game_for_players, killer is the one
\* participant whose opening hand contains the KILL card, and killer is none
\* exactly when no opening hand contains it; the KILL card is then in the deck.
C17_InitialKiller ==
    [][Len(games') = Len(games) + 1 =>
          /\ Created.killer # None =>
                /\ InSeq(Created.killer, Created.players)
                /\ \A p \in Range(Created.players) :
                      HoldsKill(Created, p) <=> p = Created.killer
          /\ Created.killer = None <=>
                \A p \in Range(Created.players) : ~HoldsKill(Created, p)
          /\ Created.killer = None => InSeq("killcard", Created.deck)
      ]_vars

\* C17 witness: a session of 5 players none of whom was dealt the KILL card
C17_Witness ==
    /\ Len(games) = 1
    /\ Len(games[1].players) = 5
    /\ games[1].killer = None
    /\ InSeq("killcard", games[1].deck)

\* C18: after any sequence of join_queue and leave_queue calls served one at
\* a time the matchmaking queue holds no player id twice, and a join by a
\* player already queued leaves the queue's content and order unchanged
\* (and starts no session).
C18_JoinIdempotent ==
    /\ [](Distinct(matchmaking_queue))
    /\ [][\A uid \in Users :
             (InSeq(uid, matchmaking_queue) /\ join_queue(uid)) =>
                /\ matchmaking_queue' = matchmaking_queue
                /\ games' = games
                /\ response' = <<"started", FALSE, None>>
         ]_vars

\* C18 witness: two players wait in join order and a join has just been
\* answered without a session, the state in which a repeated join by either
\* of them starts and ends
C18_Witness ==
    /\ matchmaking_queue = <<2, 1>>
    /\ response = <<"started", FALSE, None>>

\* C27: after any sequence of join_queue, leave_queue and queue_status calls
\* no player id is at the same time in the matchmaking queue and mapped by
\* user_to_game to a session, and queue_status for a player waiting in the
\* queue never reports start_game.
C27_QueueSessionExclusive ==
    /\ [](\A u \in Users : InSeq(u, matchmaking_queue) => user_to_game[u] = None)
    /\ [][\A uid \in Users :
             (InSeq(uid, matchmaking_queue) /\ queue_status(uid)) =>
                response'[3] = FALSE
         ]_vars

----------------------------------------------------------------------------
(* SpecJoinRace: two join_queue requests served by two threads of the      *)
(* server (app.run serves each request on its own thread), interleaved     *)
(* statement by statement.  queue_map_lock (line 129) is never read or     *)
(* written by any handler, so nothing orders the statements of the two.    *)
(* pc[t] names the source line thread t runs next.                         *)

JoinThreads == {1, 2}

InitJoinRace ==
    /\ matchmaking_queue = [i \in 1..(MATCH_SIZE - 1) |-> i]
    /\ games = <<>>
    /\ user_to_game = [u \in Users |-> None]
    /\ response = <<>>
    /\ pc = [t \in JoinThreads |-> "L565"]
    /\ loc = [t \in JoinThreads |-> [uid |-> MATCH_SIZE - 1 + t, players |-> <<>>]]

Goto(t, label) == pc' = [pc EXCEPT ![t] = label]

\* line 565: if uid not in matchmaking_queue
Join565(t) ==
    /\ pc[t] = "L565"
    /\ Goto(t, IF InSeq(loc[t].uid, matchmaking_queue) THEN "L568" ELSE "L566")
    /\ UNCHANGED <<matchmaking_queue, games, user_to_game, response, loc>>

\* line 566: matchmaking_queue.append(uid)
Join566(t) ==
    /\ pc[t] = "L566"
    /\ matchmaking_queue' = Append(matchmaking_queue, loc[t].uid)
    /\ Goto(t, "L568")
    /\ UNCHANGED <<games, user_to_game, response, loc>>

\* line 568: if len(matchmaking_queue) >= MATCH_SIZE (else line 572)
Join568(t) ==
    /\ pc[t] = "L568"
    /\ IF Len(matchmaking_queue) >= MATCH_SIZE
       THEN Goto(t, "L569") /\ UNCHANGED response
       ELSE Goto(t, "done") /\ response' = <<"started", FALSE, None>>
    /\ UNCHANGED <<matchmaking_queue, games, user_to_game, loc>>

\* line 569: one matchmaking_queue.pop(0) of the list comprehension;
\* pop from an empty list raises IndexError and the request ends in a 500
Join569(t) ==
    /\ pc[t] = "L569"
    /\ IF matchmaking_queue = <<>>
       THEN /\ Goto(t, "error")
            /\ response' = <<"error", FALSE, None>>
            /\ UNCHANGED <<matchmaking_queue, loc>>
       ELSE /\ matchmaking_queue' = Tail(matchmaking_queue)
            /\ loc' = [loc EXCEPT ![t].players = Append(@, Head(matchmaking_queue))]
            /\ Goto(t, IF Len(loc[t].players) + 1 = MATCH_SIZE THEN "L570" ELSE "L569")
            /\ UNCHANGED response
    /\ UNCHANGED <<games, user_to_game>>

\* lines 570-571: g = create_game_for_players(players); return started
Join570(t) ==
    /\ pc[t] = "L570"
    /\ create_game_for_players(loc[t].players)
    /\ response' = <<"started", TRUE, Len(games) + 1>>
    /\ Goto(t, "done")
    /\ UNCHANGED <<matchmaking_queue, loc>>

NextJoinRace ==
    \E t \in JoinThreads :
        Join565(t) \/ Join566(t) \/ Join568(t) \/ Join569(t) \/ Join570(t)

SpecJoinRace == InitJoinRace /\ [][NextJoinRace]_vars

JoinsOver == \A t \in JoinThreads : pc[t] \in {"done", "error"}

\* C3: with MATCH_SIZE-1 players queued and two further players joining
\* concurrently, once both requests are over exactly one session exists, it
\* has exactly MATCH_SIZE participants, no join failed, and each of the
\* MATCH_SIZE+1 players is either in that session or still in the queue.
C3_ConcurrentJoins ==
    JoinsOver =>
        /\ Len(games) = 1
        /\ Len(games[1].players) = MATCH_SIZE
        /\ \A t \in JoinThreads : pc[t] = "done"
        /\ \A u \in 1..(MATCH_SIZE + 1) :
              InSeq(u, games[1].players) \/ InSeq(u, matchmaking_queue)

----------------------------------------------------------------------------
(* SpecPlayRace: two play_card requests on the same session served by two  *)
(* threads, interleaved statement by statement (one step per source line   *)
(* that reads or writes the game dict).  pc[t] names the line thread t     *)
(* runs next; loc[t] holds its locals.  TAKE's local target_hand (line     *)
(* 711) is a reference to a list object: loc[t].alias is the key of        *)
(* g['hands'] that is bound to that object, None once another statement    *)
(* has rebound the key, and loc[t].target_hand is then the object's        *)
(* content.  loc[t].g0 is the game dict as the request found it.           *)

PlayThreads == {1, 2}

\* the form's fields (lines 674-675) for a participant of g holding cards
PlayCalls(g) ==
    {[uid |-> u, card |-> c, target_username |-> tu] :
        u \in Range(g.players), c \in Range(CARD_FILES), tu \in 0..Len(g.players)}

NeedsTarget(card) ==
    card \in {"takecard", "exchangecard", "accusatecard", "killcard"}

PlayLocals(g, call) ==
    [uid |-> call.uid, card |-> call.card,
     target_username |-> call.target_username, target_id |-> None,
     draws |-> <<>>, k |-> 0, alias |-> None, target_hand |-> <<>>,
     taken |-> NoCard, g0 |-> g]

InitPlayRace ==
    /\ matchmaking_queue = <<>>
    /\ user_to_game = [u \in Users |-> IF u <= MaxPlayers THEN 1 ELSE None]
    /\ response = <<>>
    /\ pc = [t \in PlayThreads |-> "L668"]
    /\ \E deck \in make_new_deck :
         LET g == NewGame(1, [i \in 1..MaxPlayers |-> i], deck)
         IN /\ games = <<g>>
            /\ \E c1 \in PlayCalls(g), c2 \in PlayCalls(g) :
                 /\ c1.uid <= c2.uid
                 /\ \A c \in {c1, c2} :
                      /\ InSeq(c.card, g.hands[c.uid])
                      /\ NeedsTarget(c.card) \/ c.target_username = None
                 /\ loc = [t \in PlayThreads |->
                             PlayLocals(g, IF t = 1 THEN c1 ELSE c2)]

\* a statement that rebinds g['hands'][p] leaves the old list object to
\* whoever still refers to it
Rebound(l, p, content) ==
    IF l.alias = p THEN [l EXCEPT !.alias = None, !.target_hand = content] ELSE l

\* line 730 swaps the list objects bound to keys a and b
Swapped(l, a, b) ==
    IF l.alias = a /\ a # None THEN [l EXCEPT !.alias = b]
    ELSE IF l.alias = b /\ b # None THEN [l EXCEPT !.alias = a]
    ELSE l

Stmt(t, label, g2, l2) ==
    /\ pc' = [pc EXCEPT ![t] = label]
    /\ games' = [games EXCEPT ![1] = g2]
    /\ loc' = [loc EXCEPT ![t] = l2]
    /\ UNCHANGED <<matchmaking_queue, user_to_game, response>>

Jump(t, label) == Stmt(t, label, games[1], loc[t])

\* hands[p] = [] (lines 750, 759, 783)
StmtRebind(t, label, p) ==
    /\ pc' = [pc EXCEPT ![t] = label]
    /\ games' = [games EXCEPT ![1].hands[p] = <<>>]
    /\ loc' = [u \in PlayThreads |-> Rebound(loc[u], p, games[1].hands[p])]
    /\ UNCHANGED <<matchmaking_queue, user_to_game, response>>

\* flash(text); return redirect(...)
Return(t, label, text) ==
    /\ pc' = [pc EXCEPT ![t] = label]
    /\ response' = Flash(text)
    /\ UNCHANGED <<matchmaking_queue, games, user_to_game, loc>>

\* an uncaught ValueError or IndexError: the request ends in a 500
Raise(t) ==
    /\ pc' = [pc EXCEPT ![t] = "error"]
    /\ response' = <<"error", FALSE, None>>
    /\ UNCHANGED <<matchmaking_queue, games, user_to_game, loc>>

\* the if / elif chain of lines 684-789 tests the local card only
BranchOf(card) ==
    CASE card = "statecard" -> "L685"
      [] card = "searchcard" -> "L688"
      [] card = "shieldcard" -> "L703"
      [] card = "takecard" -> "L706"
      [] card = "exchangecard" -> "L725"
      [] card = "judgecard" -> "L737"
      [] card = "accusatecard" -> "L741"
      [] card = "killcard" -> "L768"
      [] OTHER -> "L790"

\* lines 668-678: the three guards, each a read of the shared game dict
PlayGuards(t) ==
    LET g == games[1]
        l == loc[t]
    IN /\ pc[t] \in {"L668", "L671", "L676"}
       /\ \/ /\ pc[t] = "L668"
             /\ IF ~InSeq(l.uid, g.players)
                THEN Return(t, "rejected", "Game not found or you're not a player.")
                ELSE Jump(t, "L671")
          \/ /\ pc[t] = "L671"
             /\ IF ~InSeq(l.uid, g.alive)
                THEN Return(t, "rejected", "You're eliminated.")
                ELSE Jump(t, "L676")
          \/ /\ pc[t] = "L676"
             /\ IF l.card = NoCard \/ ~InSeq(l.card, g.hands[l.uid])
                THEN Return(t, "rejected", "Invalid card selection.")
                ELSE Jump(t, "L681")

\* line 681: g['hands'][uid].remove(card), ValueError when the card is gone
PlayRemove(t) ==
    LET g == games[1]
        l == loc[t]
    IN /\ pc[t] = "L681"
       /\ IF ~InSeq(l.card, g.hands[l.uid])
          THEN Raise(t)
          ELSE Stmt(t, BranchOf(l.card),
                    [g EXCEPT !.hands[l.uid] = ListRemove(@, l.card)], l)

\* lines 685-686
PlayStateStmts(t) ==
    LET g == games[1]
        l == loc[t]
    IN /\ pc[t] \in {"L685", "L686"}
       /\ \/ /\ pc[t] = "L685"
             /\ Stmt(t, "L686",
                     Logged(g, "played STATE.", get_username_by_id(l.uid), None), l)
          \/ /\ pc[t] = "L686"
             /\ Stmt(t, "L794", Discard(g, l.card), l)

\* lines 688-700
PlaySearchStmts(t) ==
    LET g == games[1]
        l == loc[t]
    IN /\ pc[t] \in {"L688", "L692", "L694", "L695", "L696", "L697", "L698",
                     "L699", "L700"}
       /\ \/ /\ pc[t] = "L688"
             /\ Stmt(t, "L692", Discard(g, l.card), [l EXCEPT !.draws = <<>>, !.k = 0])
          \/ /\ pc[t] = "L692"
             /\ Jump(t, IF l.k = SEARCH_DRAWS THEN "L699"
                        ELSE IF g.deck = <<>> THEN "L694" ELSE "L697")
          \/ /\ pc[t] = "L694"
             /\ Stmt(t, "L695", [g EXCEPT !.deck = g.used], l)
          \/ /\ pc[t] = "L695"
             /\ Stmt(t, "L696", [g EXCEPT !.used = <<>>], l)
          \/ /\ pc[t] = "L696"
             /\ \E d \in shuffle(g.deck) : Stmt(t, "L697", [g EXCEPT !.deck = d], l)
          \/ /\ pc[t] = "L697"
             /\ IF g.deck # <<>>
                THEN Jump(t, "L698")
                ELSE Stmt(t, "L692", g, [l EXCEPT !.k = @ + 1])
          \/ /\ pc[t] = "L698"
             /\ IF g.deck = <<>>
                THEN Raise(t)
                ELSE Stmt(t, "L692",
                          [g EXCEPT !.deck = SubSeq(@, 1, Len(@) - 1)],
                          [l EXCEPT !.draws = Append(@, g.deck[Len(g.deck)]),
                                    !.k = @ + 1])
          \/ /\ pc[t] = "L699"
             /\ Stmt(t, "L700", [g EXCEPT !.hands[l.uid] = @ \o l.draws], l)
          \/ /\ pc[t] = "L700"
             /\ Stmt(t, "L794",
                     Logged(g, "searched and drew card(s).",
                            get_username_by_id(l.uid), Len(l.draws)),
                     [l EXCEPT !.draws = <<>>, !.k = 0])

\* lines 703-704
PlayShieldStmts(t) ==
    LET g == games[1]
        l == loc[t]
    IN /\ pc[t] \in {"L703", "L704"}
       /\ \/ /\ pc[t] = "L703"
             /\ Stmt(t, "L704", [g EXCEPT !.shields_equipped = @ \cup {l.uid}], l)
          \/ /\ pc[t] = "L704"
             /\ Stmt(t, "L794",
                     Logged(g, "equipped SHIELD.", get_username_by_id(l.uid), None), l)

\* the object target_hand refers to
HandObject(g, l) == IF l.alias # None THEN g.hands[l.alias] ELSE l.target_hand

\* lines 706-723
PlayTakeStmts(t) ==
    LET g == games[1]
        l == loc[t]
        obj == HandObject(g, l)
    IN /\ pc[t] \in {"L706", "L707", "L709", "L711", "L713", "L714", "L715",
                     "L716", "L717", "L719", "L721", "L723"}
       /\ \/ /\ pc[t] = "L706"
             /\ Stmt(t, "L707", Discard(g, l.card), l)
          \/ /\ pc[t] = "L707"
             /\ IF l.target_username = None
                THEN Jump(t, "L723")
                ELSE Stmt(t, "L709", g,
                          [l EXCEPT !.target_id =
                                      get_userid_by_username(l.target_username)])
          \/ /\ pc[t] = "L709"
             /\ Jump(t, IF ValidOther(g, l.uid, l.target_id) THEN "L711" ELSE "L721")
          \/ /\ pc[t] = "L711"
             /\ Stmt(t, "L713", g, [l EXCEPT !.alias = l.target_id])
          \/ /\ pc[t] = "L713"
             /\ Jump(t, IF obj # <<>> THEN "L714" ELSE "L719")
          \/ /\ pc[t] = "L714"
             /\ IF obj = <<>>
                THEN Raise(t)
                ELSE \E i \in 1..Len(obj) :
                        Stmt(t, "L715", g, [l EXCEPT !.taken = obj[i]])
          \/ /\ pc[t] = "L715"
             /\ IF ~InSeq(l.taken, obj)
                THEN Raise(t)
                ELSE IF l.alias # None
                THEN Stmt(t, "L716",
                          [g EXCEPT !.hands[l.alias] = ListRemove(@, l.taken)],
                          [l EXCEPT !.alias = None])
                ELSE Stmt(t, "L716", g, [l EXCEPT !.target_hand = <<>>])
          \/ /\ pc[t] = "L716"
             /\ Stmt(t, "L717", [g EXCEPT !.hands[l.uid] = Append(@, l.taken)],
                     [l EXCEPT !.taken = NoCard])
          \/ /\ pc[t] = "L717"
             /\ Stmt(t, "L794",
                     Logged(g, "took a card from", get_username_by_id(l.uid),
                            l.target_username), l)
          \/ /\ pc[t] = "L719"
             /\ Stmt(t, "L794",
                     Logged(g, "had no cards to take.", None, l.target_username),
                     [l EXCEPT !.alias = None, !.target_hand = <<>>])
          \/ /\ pc[t] = "L721"
             /\ Stmt(t, "L794", Logged(g, "Invalid target for TAKE.", None, None), l)
          \/ /\ pc[t] = "L723"
             /\ Stmt(t, "L794", Logged(g, "No target provided for TAKE.", None, None), l)

\* lines 725-735
PlayExchangeStmts(t) ==
    LET g == games[1]
        l == loc[t]
    IN /\ pc[t] \in {"L725", "L726", "L728", "L730", "L731", "L733", "L735"}
       /\ \/ /\ pc[t] = "L725"
             /\ Stmt(t, "L726", Discard(g, l.card), l)
          \/ /\ pc[t] = "L726"
             /\ IF l.target_username = None
                THEN Jump(t, "L735")
                ELSE Stmt(t, "L728", g,
                          [l EXCEPT !.target_id =
                                      get_userid_by_username(l.target_username)])
          \/ /\ pc[t] = "L728"
             /\ Jump(t, IF ValidOther(g, l.uid, l.target_id) THEN "L730" ELSE "L733")
          \/ /\ pc[t] = "L730"
             /\ pc' = [pc EXCEPT ![t] = "L731"]
             /\ games' = [games EXCEPT ![1].hands[l.uid] = g.hands[l.target_id],
                                       ![1].hands[l.target_id] = g.hands[l.uid]]
             /\ loc' = [u \in PlayThreads |-> Swapped(loc[u], l.uid, l.target_id)]
             /\ UNCHANGED <<matchmaking_queue, user_to_game, response>>
          \/ /\ pc[t] = "L731"
             /\ Stmt(t, "L794",
                     Logged(g, "exchanged hands with", get_username_by_id(l.uid),
                            l.target_username), l)
          \/ /\ pc[t] = "L733"
             /\ Stmt(t, "L794", Logged(g, "Invalid target for EXCHANGE.", None, None), l)
          \/ /\ pc[t] = "L735"
             /\ Stmt(t, "L794",
                     Logged(g, "No target provided for EXCHANGE.", None, None), l)

\* lines 737-738
PlayJudgeStmts(t) ==
    LET g == games[1]
        l == loc[t]
    IN /\ pc[t] \in {"L737", "L738"}
       /\ \/ /\ pc[t] = "L737"
             /\ Stmt(t, "L738", Discard(g, l.card), l)
          \/ /\ pc[t] = "L738"
             /\ Stmt(t, "L794",
                     Logged(g, "played JUDGE.", get_username_by_id(l.uid), None), l)

\* alive.remove(pid), ValueError when pid is no longer in the list
RemoveAlive(t, label, pid) ==
    IF ~InSeq(pid, games[1].alive)
    THEN Raise(t)
    ELSE Stmt(t, label, [games[1] EXCEPT !.alive = ListRemove(@, pid)], loc[t])

\* used += hands.get(pid, [])
DiscardHand(t, label, pid) ==
    Stmt(t, label, [games[1] EXCEPT !.used = @ \o games[1].hands[pid]], loc[t])

\* lines 741-764
PlayAccusationStmts(t) ==
    LET g == games[1]
        l == loc[t]
    IN /\ pc[t] \in {"L741", "L742", "L744", "L746", "L748", "L749", "L750",
                     "L751", "L752", "L753", "L754", "L757", "L758", "L759",
                     "L760", "L762", "L764"}
       /\ \/ /\ pc[t] = "L741"
             /\ Stmt(t, "L742", Discard(g, l.card), l)
          \/ /\ pc[t] = "L742"
             /\ IF l.target_username = None
                THEN Jump(t, "L764")
                ELSE Stmt(t, "L744", g,
                          [l EXCEPT !.target_id =
                                      get_userid_by_username(l.target_username)])
          \/ /\ pc[t] = "L744"
             /\ Jump(t, IF l.target_id # None /\ InSeq(l.target_id, g.alive)
                        THEN "L746" ELSE "L762")
          \/ /\ pc[t] = "L746"
             /\ Jump(t, IF g.killer = l.target_id THEN "L748" ELSE "L757")
          \/ /\ pc[t] = "L748"
             /\ RemoveAlive(t, "L749", l.target_id)
          \/ /\ pc[t] = "L749"
             /\ DiscardHand(t, "L750", l.target_id)
          \/ /\ pc[t] = "L750"
             /\ StmtRebind(t, "L751", l.target_id)
          \/ /\ pc[t] = "L751"
             /\ Stmt(t, "L752",
                     Logged(g, "used ACCUSATION and was correct! eliminated.",
                            get_username_by_id(l.uid), l.target_username), l)
          \/ /\ pc[t] = "L752"
             /\ Stmt(t, "L753", [g EXCEPT !.killer = None], l)
          \/ /\ pc[t] = "L753"
             /\ Stmt(t, "L754", [g EXCEPT !.finished = TRUE], l)
          \/ /\ pc[t] = "L754"
             /\ Stmt(t, "L794", [g EXCEPT !.winner = "faithfuls"], l)
          \/ /\ pc[t] = "L757"
             /\ RemoveAlive(t, "L758", l.uid)
          \/ /\ pc[t] = "L758"
             /\ DiscardHand(t, "L759", l.uid)
          \/ /\ pc[t] = "L759"
             /\ StmtRebind(t, "L760", l.uid)
          \/ /\ pc[t] = "L760"
             /\ Stmt(t, "L794",
                     Logged(g, "used ACCUSATION and was wrong, eliminated.",
                            get_username_by_id(l.uid), get_username_by_id(l.uid)), l)
          \/ /\ pc[t] = "L762"
             /\ Stmt(t, "L794",
                     Logged(g, "Invalid target for ACCUSATION.", None, None), l)
          \/ /\ pc[t] = "L764"
             /\ Stmt(t, "L794",
                     Logged(g, "No target provided for ACCUSATION.", None, None), l)

\* lines 768-788
PlayKillStmts(t) ==
    LET g == games[1]
        l == loc[t]
    IN /\ pc[t] \in {"L768", "L769", "L770", "L772", "L774", "L776", "L777",
                     "L778", "L781", "L782", "L783", "L784", "L786", "L788"}
       /\ \/ /\ pc[t] = "L768"
             /\ Stmt(t, "L769", Discard(g, l.card), l)
          \/ /\ pc[t] = "L769"
             /\ Stmt(t, "L770", [g EXCEPT !.killer = l.uid], l)
          \/ /\ pc[t] = "L770"
             /\ IF l.target_username = None
                THEN Jump(t, "L788")
                ELSE Stmt(t, "L772", g,
                          [l EXCEPT !.target_id =
                                      get_userid_by_username(l.target_username)])
          \/ /\ pc[t] = "L772"
             /\ Jump(t, IF ValidOther(g, l.uid, l.target_id) THEN "L774" ELSE "L786")
          \/ /\ pc[t] = "L774"
             /\ Jump(t, IF l.target_id \in g.shields_equipped THEN "L776" ELSE "L781")
          \/ /\ pc[t] = "L776"
             /\ Stmt(t, "L777", [g EXCEPT !.shields_equipped = @ \ {l.target_id}], l)
          \/ /\ pc[t] = "L777"
             /\ Stmt(t, "L778", [g EXCEPT !.hands[l.uid] = Append(@, "shieldcard")], l)
          \/ /\ pc[t] = "L778"
             /\ Stmt(t, "L794",
                     Logged(g, "attempted to kill but shield broke and was taken by killer.",
                            get_username_by_id(l.uid), l.target_username), l)
          \/ /\ pc[t] = "L781"
             /\ RemoveAlive(t, "L782", l.target_id)
          \/ /\ pc[t] = "L782"
             /\ DiscardHand(t, "L783", l.target_id)
          \/ /\ pc[t] = "L783"
             /\ StmtRebind(t, "L784", l.target_id)
          \/ /\ pc[t] = "L784"
             /\ Stmt(t, "L794",
                     Logged(g, "used KILL and eliminated", get_username_by_id(l.uid),
                            l.target_username), l)
          \/ /\ pc[t] = "L786"
             /\ Stmt(t, "L794", Logged(g, "Invalid target for KILL.", None, None), l)
          \/ /\ pc[t] = "L788"
             /\ Stmt(t, "L794", Logged(g, "No target provided for KILL.", None, None), l)

\* lines 794-800
PlayEndCheck(t) ==
    LET g == games[1]
        l == loc[t]
    IN /\ pc[t] \in {"L794", "L795", "L796", "L797", "L798", "L799", "L800"}
       /\ \/ /\ pc[t] = "L794"
             /\ Jump(t, IF g.killer # None /\ winner_by_killer(g.alive, g.killer)
                        THEN "L795" ELSE "L797")
          \/ /\ pc[t] = "L795"
             /\ Stmt(t, "L796", [g EXCEPT !.finished = TRUE], l)
          \/ /\ pc[t] = "L796"
             /\ Stmt(t, "L800", [g EXCEPT !.winner = "killer"], l)
          \/ /\ pc[t] = "L797"
             /\ Jump(t, IF g.killer = None
                           /\ \A i \in 1..Len(g.players) :
                                 /\ g.players[i] \in DOMAIN g.hands
                                 /\ g.hands[g.players[i]] = <<>>
                        THEN "L798" ELSE "L800")
          \/ /\ pc[t] = "L798"
             /\ Stmt(t, "L799", [g EXCEPT !.finished = TRUE], l)
          \/ /\ pc[t] = "L799"
             /\ Stmt(t, "L800", [g EXCEPT !.winner = "faithfuls"], l)
          \/ /\ pc[t] = "L800"
             /\ Return(t, "done", "")

\* the else branch of line 789 needs a card outside the eight kinds of
\* CARD_FILES in a hand; make_new_deck deals none, so no request reaches it
NextPlayRace ==
    \E t \in PlayThreads :
        \/ PlayGuards(t)
        \/ PlayRemove(t)
        \/ PlayStateStmts(t)
        \/ PlaySearchStmts(t)
        \/ PlayShieldStmts(t)
        \/ PlayTakeStmts(t)
        \/ PlayExchangeStmts(t)
        \/ PlayJudgeStmts(t)
        \/ PlayAccusationStmts(t)
        \/ PlayKillStmts(t)
        \/ PlayEndCheck(t)

SpecPlayRace == InitPlayRace /\ [][NextPlayRace]_vars

PlaysOver == \A t \in PlayThreads : pc[t] \in {"done", "rejected", "error"}

\* play_card run alone on game dict g for the request of locals l: the game
\* dicts it may leave
Served(g, l) ==
    IF Rejects(g, l.uid, l.card) # ""
    THEN {g}
    ELSE Resolve(g, l.uid, l.card, l.target_username)

\* the two requests run one after the other, in either order
SerialOutcomes ==
    LET g0 == loc[1].g0
    IN (UNION {Served(g1, loc[2]) : g1 \in Served(g0, loc[1])})
       \cup (UNION {Served(g2, loc[1]) : g2 \in Served(g0, loc[2])})

\* a list as the bag of its entries
BagOf(s) == [c \in Range(s) |-> Count(c, s)]

\* two game dicts that differ at most in the order of the entries of the
\* used pile, of the log and of each hand
SameUpToOrder(a, b) ==
    /\ a.players = b.players
    /\ a.alive = b.alive
    /\ a.deck = b.deck
    /\ a.killer = b.killer
    /\ a.shields_equipped = b.shields_equipped
    /\ a.finished = b.finished
    /\ a.winner = b.winner
    /\ BagOf(a.used) = BagOf(b.used)
    /\ BagOf(a.log) = BagOf(b.log)
    /\ \A p \in DOMAIN a.hands : BagOf(a.hands[p]) = BagOf(b.hands[p])

\* C4: once two concurrent play_card requests on one session are both
\* over, the session is in a state that running the two requests one after
\* the other, in some order, can produce, even when the order of the
\* entries inside the used pile, the log and the hands is ignored; so a
\* card held once has been discarded at most once and the card total is
\* the one a serial run leaves.
C4_PlaysSerializable ==
    PlaysOver => \E s \in SerialOutcomes : SameUpToOrder(games[1], s)

----------------------------------------------------------------------------
(* SpecSearch: the SEARCH branch of play_card (lines 687-700) as a function *)
(* of the game dict it is given.  With MATCH_SIZE = 5 a session's deck      *)
(* starts at 17 cards and the five SEARCH cards draw at most 15, so the     *)
(* deck of a session made by join_queue never runs out; the short-deck and  *)
(* reshuffle paths of the loop are exercised here on game dicts whose deck  *)
(* and used pile are inputs, every list of up to MaxDeck and MaxUsed cards. *)

SeqsUpTo(S, n) == UNION {[1..k -> S] : k \in 0..n}

DeckInputs == SeqsUpTo({"statecard", "searchcard"}, MaxDeck)

UsedInputs == SeqsUpTo({"judgecard", "takecard"}, MaxUsed)

InitSearch ==
    /\ matchmaking_queue = <<>>
    /\ user_to_game = [u \in Users |-> IF u <= 2 THEN 1 ELSE None]
    /\ response = <<>>
    /\ pc = <<>>
    /\ loc = <<>>
    /\ \E deck \in DeckInputs, used \in UsedInputs, killer \in {None, 2} :
          games = << [id |-> 1,
                      players |-> <<1, 2>>,
                      alive |-> <<1, 2>>,
                      hands |-> <<(<<"shieldcard", "searchcard">>), (<<"searchcard">>)>>,
                      deck |-> deck,
                      used |-> used,
                      killer |-> killer,
                      shields_equipped |-> {},
                      log |-> <<>>,
                      finished |-> FALSE,
                      winner |-> NoWinner] >>

SearchCall ==
    \E uid \in 1..2 :
        /\ Len(games[1].log) < MaxSearches
        /\ play_card(1, uid, "searchcard", None)

NextSearch == SearchCall

SpecSearch == InitSearch /\ [][NextSearch]_vars

\* what an accepted SEARCH by uid leaves: pile is the used pile once the
\* SEARCH card is on it, n the number of cards drawn, d how many of them the
\* deck served before it ran empty, draws the cards added to the hand
SearchEffect(uid) ==
    LET pile == Append(G.used, "searchcard")
        total == Len(G.deck) + Len(pile)
        n == IF total < 3 THEN total ELSE 3
        d == IF Len(G.deck) < 3 THEN Len(G.deck) ELSE 3
        kept == ListRemove(G.hands[uid], "searchcard")
        draws == SubSeq(G'.hands[uid], Len(kept) + 1, Len(G'.hands[uid]))
    IN /\ response' = Flash("")
       /\ Len(G'.hands[uid]) = Len(kept) + n
       /\ SubSeq(G'.hands[uid], 1, Len(kept)) = kept
       /\ \A i \in 1..d : draws[i] = G.deck[Len(G.deck) + 1 - i]
       /\ IF Len(G.deck) >= 3
          THEN /\ G'.deck = SubSeq(G.deck, 1, Len(G.deck) - 3)
               /\ G'.used = pile
          ELSE /\ G'.used = <<>>
               /\ BagOf(SubSeq(draws, d + 1, n) \o G'.deck) = BagOf(pile)
       /\ \A p \in DOMAIN G.hands : p # uid => G'.hands[p] = G.hands[p]
       /\ G'.alive = G.alive
       /\ G'.killer = G.killer
       /\ G'.shields_equipped = G.shields_equipped
       /\ G'.log = Append(G.log, <<"searched and drew card(s).",
                                   get_username_by_id(uid), n>>)

\* C20: SEARCH never fails: once the SEARCH card is on the used pile the
\* actor draws min(3, len(deck) + len(used)) cards, each popped from the
\* deck, the used pile being reshuffled into the deck (and emptied) only at
\* a draw that finds the deck empty; no other player's hand, alive, killer
\* or shields_equipped changes.
C20_Search ==
    [][\A uid \in Range(G.alive) :
          (InSeq("searchcard", G.hands[uid])
             /\ play_card(1, uid, "searchcard", None)) => SearchEffect(uid)
      ]_vars

\* C20 witness: a SEARCH has just drawn fewer than 3 cards, after the used
\* pile was reshuffled into a deck that had run empty
C20_Witness ==
    /\ LastLog(G)[1] = "searched and drew card(s)."
    /\ LastLog(G)[3] = 2
    /\ G.used = <<>>
    /\ G.deck = <<>>

----------------------------------------------------------------------------
(* SpecBots: the simulation loop of bots_mode (lines 388-457), one step per *)
(* player turn.  Player 1 is 'YOU' and players 2..5 are 'BOT1'..'BOT4'.     *)
(* loc holds the handler's locals (todo is what the iterator of line 413    *)
(* still has to hand out) and pc[1] the statement it runs next: "while"     *)
(* (line 410), "for" (line 413), "check" (line 454), "done" (line 459).     *)

BOT_PLAYERS == <<1, 2, 3, 4, 5>>

\* lines 389-403: deck, hands and killer after the deal.  When nobody was
\* dealt the KILL card a second one is appended to the deck, the deck is
\* shuffled and its top card goes to a random player: any card of the deck
\* to any player, and killer stays None.  The deck is not read afterwards.
BotsDealt(deck0) ==
    LET hands == [p \in Range(BOT_PLAYERS) |-> DealtHand(deck0, p)]
        deck == SubSeq(deck0, 1, Len(deck0) - HAND_SIZE * Len(BOT_PLAYERS))
        killer == InitialKiller(BOT_PLAYERS, hands)
        refilled == Append(deck, "killcard")
    IN IF killer # None
       THEN {[hands |-> hands, deck |-> deck, killer |-> killer]}
       ELSE {[hands |-> [hands EXCEPT ![p] = Append(@, refilled[i])],
              deck |-> RemoveAt(refilled, i),
              killer |-> None]
             : p \in Range(BOT_PLAYERS), i \in 1..Len(refilled)}

\* lines 389-409
InitBots ==
    /\ matchmaking_queue = <<>>
    /\ games = <<>>
    /\ user_to_game = [u \in Users |-> None]
    /\ response = <<>>
    /\ pc = <<"while">>
    /\ \E deck0 \in make_new_deck : \E d \in BotsDealt(deck0) :
          loc = [players |-> BOT_PLAYERS,
                 deck |-> d.deck,
                 hands |-> d.hands,
                 killer |-> d.killer,
                 alive |-> BOT_PLAYERS,
                 used |-> <<>>,
                 log |-> <<>>,
                 round_no |-> 0,
                 todo |-> <<>>]

BotsStep(label, l2) ==
    /\ pc' = <<label>>
    /\ loc' = l2
    /\ UNCHANGED <<matchmaking_queue, games, user_to_game, response>>

\* lines 419-430: the killer's attempt on tgt
BotsAttack(l, tgt) ==
    IF InSeq("shieldcard", l.hands[tgt])
    THEN [l EXCEPT !.hands[tgt] = ListRemove(@, "shieldcard"),
                   !.used = Append(@, "shieldcard"),
                   !.log = Append(@, <<"'s SHIELD broke.", tgt, None>>)]
    ELSE [l EXCEPT !.alive = ListRemove(@, tgt),
                   !.used = @ \o l.hands[tgt],
                   !.hands[tgt] = <<>>,
                   !.log = Append(@, <<"was killed by the killer.", tgt, None>>)]

\* lines 415-432: the turn of the killer; brk tells that the for loop is left
BotsKillerTurn(l, p) ==
    IF Len(l.alive) <= 1
    THEN {[l |-> l, brk |-> TRUE]}
    ELSE {[l |-> [l EXCEPT !.log = Append(@, <<"(killer) skipped killing.", p, None>>)],
           brk |-> FALSE]}
         \cup {[l |-> BotsAttack(l, tgt), brk |-> FALSE] : tgt \in Range(l.alive) \ {p}}

\* lines 436-449: p names accused
BotsAccuse(l, p, accused) ==
    IF accused = l.killer
    THEN [l |-> [l EXCEPT !.log = Append(@, <<"used ACCUSATION and correctly accused", p, accused>>),
                          !.alive = SelectSeq(@, LAMBDA x : x # l.killer),
                          !.used = @ \o l.hands[l.killer],
                          !.hands[l.killer] = <<>>,
                          !.killer = None],
          brk |-> TRUE]
    ELSE [l |-> [l EXCEPT !.log = Append(@, <<"used ACCUSATION and was wrong, eliminated.", p, p>>),
                          !.alive = ListRemove(@, p),
                          !.used = @ \o l.hands[p],
                          !.hands[p] = <<>>],
          brk |-> FALSE]

\* lines 433-449: the turn of any other player
BotsOtherTurn(l, p) ==
    {[l |-> l, brk |-> FALSE]}
    \cup (IF InSeq("accusatecard", l.hands[p])
          THEN {BotsAccuse(l, p, accused) : accused \in Range(l.alive)}
          ELSE {})

\* lines 410-413: a round starts, the for loop iterates over a copy of alive
BotsRound ==
    /\ pc[1] = "while"
    /\ BotsStep(IF loc.alive = <<>> THEN "check" ELSE "for",
                [loc EXCEPT !.round_no = @ + 1, !.todo = loc.alive])

\* lines 413-452: one iteration of the for loop
BotsTurn ==
    /\ pc[1] = "for"
    /\ LET p == Head(loc.todo)
       IN \E o \in (IF p = loc.killer THEN BotsKillerTurn(loc, p)
                                      ELSE BotsOtherTurn(loc, p)) :
             IF o.brk \/ Len(o.l.alive) <= 1 \/ Tail(loc.todo) = <<>>
             THEN BotsStep("check", [o.l EXCEPT !.todo = <<>>])
             ELSE BotsStep("for", [o.l EXCEPT !.todo = Tail(loc.todo)])

\* mutant: the round cap is tested one round late
BotsStop_LateCap(l) ==
    \/ l.killer = None
    \/ winner_by_killer(l.alive, l.killer)
    \/ l.round_no > 9

\* lines 454-457: the termination conditions
BotsStop(l) ==
    \/ l.killer = None
    \/ winner_by_killer(l.alive, l.killer)
    \/ l.round_no > 8

\* lines 454-457
BotsCheck ==
    /\ pc[1] = "check"
    /\ BotsStep(IF BotsStop(loc) THEN "done" ELSE "while", loc)

NextBots == BotsRound \/ BotsTurn \/ BotsCheck

\* the handler runs on one thread that is never suspended for ever
SpecBots == InitBots /\ [][NextBots]_vars /\ WF_vars(NextBots)

\* C24: the bots simulation loop always terminates: under every sequence of
\* random choices it stops after at most 9 rounds, and it stops before the
\* ninth round is over exactly when killer is none or the killer is the only
\* player left alive.
C24_BotsTerminate ==
    /\ <>(pc[1] = "done")
    /\ [](loc.round_no <= 9)
    /\ [][/\ pc'[1] = "done" => pc[1] = "check"
          /\ pc[1] = "check" =>
                (pc'[1] = "done" <=> \/ loc.round_no = 9
                                     \/ loc.killer = None
                                     \/ loc.alive = <<loc.killer>>)
         ]_vars

\* C24 witness: the loop was stopped by the round cap, the killer still
\* alive among others
C24_Witness ==
    /\ pc[1] = "done"
    /\ loc.round_no = 9
    /\ loc.killer # None
    /\ Len(loc.alive) > 1

====
